---- MODULE Spec2Model ----
(***************************************************************************)
(* Model of src/analysis/offsets.rs: the per-module offset builder that    *)
(* the pattern_map! macro generates, the aggregator offsets(process), and  *)
(* the pattern scan (finds_code) the builder relies on.                    *)
(*                                                                         *)
(* Two specifications:                                                     *)
(*   Spec      the aggregator driving the three module builds; the result  *)
(*             of scanning one registry entry against the module image is  *)
(*             an input (found flag and save array) fixed by the image.    *)
(*   SpecScan  finds_code evaluated atom by atom on byte images, for the   *)
(*             patterns of the registry whose capture arithmetic matters.  *)
(***************************************************************************)
EXTENDS Integers, Sequences, FiniteSets, TLC

VARIABLES
    pc,        \* position of offsets(process): "module_by_name", "read_raw",
               \* "from_bytes", "build", "scan", "log", "insert", "done", "failed"
    modIdx,    \* index into `modules` of the for loop at line 126
    view,      \* the PeView of the current module: entry name -> scan outcome
    order,     \* the sequence the iteration over &PATTERNS yields (line 38)
    pos,       \* number of entries of `order` the for loop has consumed
    attempted, \* names handed to finds_code so far in this build, in order
    map,       \* the local `map` of the per-module offsets(view)
    table,     \* the local `map` of offsets(process)
    log,       \* records emitted through error! and debug!
    result,    \* what offsets(process) returned, or "pending"
    image,     \* SpecScan: bytes of the image, image[i] is the byte at RVA i-1
    baseOfCode,\* SpecScan: RVA where the code range starts
    pat,       \* SpecScan: name of the registry entry whose pattern is scanned
    found,     \* SpecScan: what finds_code returned
    save,      \* SpecScan: the save array after finds_code
    spc        \* SpecScan: "ready" before the call, "scanned" after it

vars == <<pc, modIdx, view, order, pos, attempted, map, table, log, result,
          image, baseOfCode, pat, found, save, spc>>

buildVars == <<pc, modIdx, view, order, pos, attempted, map, table, log, result>>
scanVars == <<image, baseOfCode, pat, found, save, spc>>

(***************************************************************************)
(* Bounds of the model.                                                    *)
(***************************************************************************)
\* how many entries of each module's registry are modelled (a prefix)
NumPatterns == 3
\* how many chunks an image of SpecScan is assembled from
MaxChunks == 3

Min(a, b) == IF a < b THEN a ELSE b

Range(s) == {s[i] : i \in DOMAIN s}

EmptyMap == [k \in {} |-> <<0, 0>>]

(***************************************************************************)
(* 32-bit values.  Rva is u32; a value v is kept as <<v \div 65536,        *)
(* v % 65536>> so that wrapping arithmetic stays within machine integers.  *)
(***************************************************************************)
U32(n) == <<n \div 65536, n % 65536>>

wrapping_add(a, b) ==
    LET lo == a[2] + b[2]
        hi == a[1] + b[1] + (lo \div 65536)
    IN  <<hi % 65536, lo % 65536>>

(***************************************************************************)
(* The registry.                                                           *)
(***************************************************************************)
\* the `modules` array of offsets(process)
modules == <<"client.dll", "engine2.dll", "inputsystem.dll">>

\* stringify!($module) of each module
ModuleIdent ==
    "client.dll" :> "client" @@ "engine2.dll" :> "engine2"
    @@ "inputsystem.dll" :> "input_system"

\* the names of the pattern_map! invocation, in the order they are listed
PATTERNS ==
    "client.dll" :> <<"dwEntityList", "dwGameEntitySystem",
                      "dwLocalPlayerController", "dwViewMatrix",
                      "dwCCitadelCameraManager", "dwGameTraceManager",
                      "fnGetCmd", "fnDecodeNetworkEntities", "dwSchemas",
                      "dwMaterialSystem">>
    @@ "engine2.dll" :> <<"dwBuildNumber", "dwNetworkGameClient",
                      "dwNetworkGameClient_clientTickCount",
                      "dwNetworkGameClient_deltaTick",
                      "dwNetworkGameClient_isBackgroundMap",
                      "dwNetworkGameClient_localPlayer",
                      "dwNetworkGameClient_maxClients",
                      "dwNetworkGameClient_serverTickCount",
                      "dwNetworkGameClient_signOnState",
                      "dwWindowHeight", "dwWindowWidth">>
    @@ "inputsystem.dll" :> <<"dwInputSystem">>

\* the modelled prefix of a module's registry, in the order listed
Entries(m) == SubSeq(PATTERNS[m], 1, Min(NumPatterns, Len(PATTERNS[m])))

EntrySet(m) == Range(Entries(m))

\* Ord for String (byte-wise) on the registry's names: the rank of each name
\* among all names, which is the key order of BTreeMap<String, Rva>
NameRank ==
    "dwBuildNumber" :> 1 @@ "dwCCitadelCameraManager" :> 2
    @@ "dwEntityList" :> 3 @@ "dwGameEntitySystem" :> 4
    @@ "dwGameTraceManager" :> 5 @@ "dwInputSystem" :> 6
    @@ "dwLocalPlayerController" :> 7 @@ "dwMaterialSystem" :> 8
    @@ "dwNetworkGameClient" :> 9
    @@ "dwNetworkGameClient_clientTickCount" :> 10
    @@ "dwNetworkGameClient_deltaTick" :> 11
    @@ "dwNetworkGameClient_isBackgroundMap" :> 12
    @@ "dwNetworkGameClient_localPlayer" :> 13
    @@ "dwNetworkGameClient_maxClients" :> 14
    @@ "dwNetworkGameClient_serverTickCount" :> 15
    @@ "dwNetworkGameClient_signOnState" :> 16
    @@ "dwSchemas" :> 17 @@ "dwViewMatrix" :> 18
    @@ "dwWindowHeight" :> 19 @@ "dwWindowWidth" :> 20
    @@ "fnDecodeNetworkEntities" :> 21 @@ "fnGetCmd" :> 22

\* every entry of the registry has callback None
Callback(name) == "None"

\* the orders in which iterating &PATTERNS can yield a module's entries: a
\* phf::Map is laid out by the hash of its keys, so the order is a fixed
\* permutation of the entries that the listing order does not determine
PhfIterOrders_dup(m) ==
    {s \in [1..Len(Entries(m)) -> EntrySet(m)] : TRUE}

PhfIterOrders(m) ==
    {s \in [1..Len(Entries(m)) -> EntrySet(m)] :
        \A i, j \in DOMAIN s : i # j => s[i] # s[j]}

(***************************************************************************)
(* What the scan of one entry's pattern does on an image, as the builder   *)
(* sees it: the flag finds_code returns and the save array it leaves.      *)
(* save[1] is slot 0 (where the match starts), save[2] is slot 1 (the      *)
(* first capture).  A scan that finds the pattern at several places        *)
(* returns false after writing the first match's captures.                 *)
(***************************************************************************)
ScanOutcomes ==
    { [found |-> FALSE, save |-> <<U32(0), U32(0)>>],
      [found |-> FALSE, save |-> <<U32(16), U32(48)>>],
      [found |-> TRUE,  save |-> <<U32(16), U32(48)>>] }

Views(m) == [EntrySet(m) -> ScanOutcomes]

\* view.scanner().finds_code(pat, &mut save) for the entry `name`
finds_code_of(v, name) == v[name]

\* let rva = save[1];
rva_slot0(sv) == sv[1]

rva_of(sv) == sv[2]

\* map.insert(name.to_string(), rva)
insert_reset(mp, k, v) == [x \in {k} |-> v]

insert(mp, k, v) == [x \in (DOMAIN mp) \cup {k} |-> IF x = k THEN v ELSE mp[x]]

\* the aggregator's map.insert(module_name.to_string(), offsets(view))
table_insert_nonempty(tbl, m, mp) ==
    IF DOMAIN mp = {} THEN tbl ELSE insert(tbl, m, mp)

table_insert(tbl, m, mp) == insert(tbl, m, mp)

\* error!("outdated pattern: {}", name)
log_error_none(lg, name) == lg

log_error(lg, name) ==
    Append(lg, [level |-> "error", name |-> name, value |-> U32(0), module |-> ""])

\* iteration over &map: the keys of a BTreeMap in ascending order
btree_keys_desc(mp) ==
    LET keys == DOMAIN mp
    IN  [i \in 1..Cardinality(keys) |->
            CHOOSE k \in keys :
                Cardinality({j \in keys : NameRank[j] > NameRank[k]}) = i - 1]

btree_keys(mp) ==
    LET keys == DOMAIN mp
    IN  [i \in 1..Cardinality(keys) |->
            CHOOSE k \in keys :
                Cardinality({j \in keys : NameRank[j] < NameRank[k]}) = i - 1]

\* the second loop of offsets(view): one debug! per entry of the map
log_found(lg, mp, m) ==
    lg \o [i \in 1..Cardinality(DOMAIN mp) |->
            [level |-> "debug", name |-> btree_keys(mp)[i],
             value |-> mp[btree_keys(mp)[i]], module |-> ModuleIdent[m]]]

\* `continue` after a pattern that did not match: on to the next entry
stale_break(p, n) == n

stale_continue(p, n) == p + 1

\* the `?` operator on an Err: offsets(process) returns the error and its
\* local map is dropped
propagate_partial(stage, tbl) == [kind |-> "Ok", table |-> tbl]

propagate(stage, tbl) == [kind |-> "Err", error |-> stage]

\* Ok(map)
Ok(tbl) == [kind |-> "Ok", table |-> tbl]

CurModule == modules[modIdx]

(***************************************************************************)
(* Spec: offsets(process).                                                 *)
(***************************************************************************)
Init ==
    /\ pc = "module_by_name"
    /\ modIdx = 1
    /\ view = EmptyMap
    /\ order = <<>>
    /\ pos = 0
    /\ attempted = <<>>
    /\ map = EmptyMap
    /\ table = EmptyMap
    /\ log = <<>>
    /\ result = "pending"
    /\ image = <<>>
    /\ baseOfCode = 0
    /\ pat = "dwLocalPlayerController"
    /\ found = FALSE
    /\ save = <<U32(0), U32(0)>>
    /\ spc = "scanned"

\* a step of the image provider that can fail: on Err the `?` returns
Provider(stage, next) ==
    /\ pc = stage
    /\ \E ok \in BOOLEAN :
        IF ok
        THEN /\ pc' = next
             /\ UNCHANGED <<table, result>>
        ELSE /\ pc' = "failed"
             /\ result' = propagate(stage, table)
             /\ table' = EmptyMap
    /\ UNCHANGED <<modIdx, view, order, pos, attempted, map, log>>
    /\ UNCHANGED scanVars

\* let module = process.module_by_name(module_name)?;
ModuleByName == Provider("module_by_name", "read_raw")

\* let buf = process.read_raw(module.base, module.size as _).data_part()?;
ReadRaw == Provider("read_raw", "from_bytes")

\* let view = PeView::from_bytes(&buf)?;
FromBytes ==
    /\ pc = "from_bytes"
    /\ \/ /\ \E v \in Views(CurModule) : view' = v
          /\ pc' = "build"
          /\ UNCHANGED <<table, result>>
       \/ /\ pc' = "failed"
          /\ result' = propagate("from_bytes", table)
          /\ table' = EmptyMap
          /\ UNCHANGED view
    /\ UNCHANGED <<modIdx, order, pos, attempted, map, log>>
    /\ UNCHANGED scanVars

\* offsets(view) is entered: let mut map = BTreeMap::new(); for .. in &PATTERNS
BeginBuild ==
    /\ pc = "build"
    /\ map' = EmptyMap
    /\ \E o \in PhfIterOrders(CurModule) : order' = o
    /\ pos' = 0
    /\ attempted' = <<>>
    /\ pc' = "scan"
    /\ UNCHANGED <<modIdx, view, table, log, result>>
    /\ UNCHANGED scanVars

\* one iteration of the for loop over &PATTERNS
ScanEntry ==
    /\ pc = "scan"
    /\ pos < Len(order)
    /\ LET name == order[pos + 1]
           r == finds_code_of(view, name)
       IN  /\ attempted' = Append(attempted, name)
           /\ IF ~r.found
              THEN /\ log' = log_error(log, name)
                   /\ pos' = stale_continue(pos, Len(order))
                   /\ UNCHANGED map
              ELSE /\ map' = insert(map, name, rva_of(r.save))
                   /\ pos' = pos + 1
                   /\ UNCHANGED log
    /\ UNCHANGED <<pc, modIdx, view, order, table, result>>
    /\ UNCHANGED scanVars

\* the for loop over &PATTERNS is exhausted; the loop over &map logs
LogFound ==
    /\ pc = "scan"
    /\ pos >= Len(order)
    /\ log' = log_found(log, map, CurModule)
    /\ pc' = "insert"
    /\ UNCHANGED <<modIdx, view, order, pos, attempted, map, table, result>>
    /\ UNCHANGED scanVars

\* offsets(view) returns map; map.insert(module_name.to_string(), ..); the
\* for loop of offsets(process) moves on, or Ok(map) is returned
InsertModule ==
    /\ pc = "insert"
    /\ LET t == table_insert(table, CurModule, map)
       IN  IF modIdx < Len(modules)
           THEN /\ table' = t
                /\ modIdx' = modIdx + 1
                /\ pc' = "module_by_name"
                /\ UNCHANGED result
           ELSE /\ table' = EmptyMap
                /\ result' = Ok(t)
                /\ pc' = "done"
                /\ UNCHANGED modIdx
    /\ view' = EmptyMap
    /\ map' = EmptyMap
    /\ order' = <<>>
    /\ pos' = 0
    /\ attempted' = <<>>
    /\ UNCHANGED log
    /\ UNCHANGED scanVars

Next ==
    \/ ModuleByName
    \/ ReadRaw
    \/ FromBytes
    \/ BeginBuild
    \/ ScanEntry
    \/ LogFound
    \/ InsertModule

Spec == Init /\ [][Next]_vars

(***************************************************************************)
(* The pattern scan.  A pattern is a sequence of atoms; the scan runs the  *)
(* atoms from a start RVA with a cursor, a stack of saved cursors and the  *)
(* save array.  The image is a module read from memory, so an RVA is an    *)
(* index into the buffer.                                                  *)
(***************************************************************************)
Byte(b) == [op |-> "Byte", arg |-> b]
Save(slot) == [op |-> "Save", arg |-> slot]
Push(skip) == [op |-> "Push", arg |-> skip]
Jump4 == [op |-> "Jump4", arg |-> 0]
Pop == [op |-> "Pop", arg |-> 0]
ReadU32(slot) == [op |-> "ReadU32", arg |-> slot]

\* ${'} : follow the signed 4-byte relative field, save the cursor there in
\* the next slot, and come back to just after the field
RipCapture(slot) == <<Push(4), Jump4, Save(slot), Pop>>

\* the patterns of the registry that SpecScan scans, as pattern! compiles
\* them; slot 0 always receives the RVA where the match starts
Atoms ==
    \* pattern!("483b35${'}")
    "dwLocalPlayerController" :>
        (<<Save(0), Byte(72), Byte(59), Byte(53)>> \o RipCapture(1))
    \* pattern!("488935${'} 4885f6")
    @@ "dwEntityList" :>
        (<<Save(0), Byte(72), Byte(137), Byte(53)>> \o RipCapture(1)
            \o <<Byte(72), Byte(133), Byte(246)>>)
    \* pattern!("498d87 u4 4d69f4")
    @@ "dwViewMatrix" :>
        <<Save(0), Byte(73), Byte(141), Byte(135), ReadU32(1),
          Byte(77), Byte(105), Byte(244)>>

ScanPatterns == DOMAIN Atoms

\* the byte signatures the registry's comments give for the same entries,
\* -1 standing for ?? :  48 3B 35 (and the 4-byte operand),
\* 48 89 35 ?? ?? ?? ?? 48 85 F6,  49 8D 87 ?? ?? ?? ?? 4D 69 F4
Signature ==
    "dwLocalPlayerController" :> <<72, 59, 53, -1, -1, -1, -1>>
    @@ "dwEntityList" :> <<72, 137, 53, -1, -1, -1, -1, 72, 133, 246>>
    @@ "dwViewMatrix" :> <<73, 141, 135, -1, -1, -1, -1, 77, 105, 244>>

\* save_len(pat): one more than the highest slot the pattern writes
save_len(atoms) ==
    LET slots == {atoms[i].arg : i \in {j \in DOMAIN atoms :
                                        atoms[j].op \in {"Save", "ReadU32"}}}
    IN  Cardinality(slots)

\* vec![0; save_len(pat)]
ZeroSave(atoms) == [i \in 1..save_len(atoms) |-> U32(0)]

InImage(img, c, n) == c[1] = 0 /\ c[2] + n <= Len(img)

\* the little-endian dword at cursor c, as a u32
read_u32(img, c) ==
    <<img[c[2] + 4] * 256 + img[c[2] + 3], img[c[2] + 2] * 256 + img[c[2] + 1]>>

\* Jump4: cursor = cursor.wrapping_add(rel as u32).wrapping_add(4)
jump4_nofield(cursor, rel) == wrapping_add(cursor, rel)

jump4(cursor, rel) == wrapping_add(wrapping_add(cursor, rel), U32(4))

RECURSIVE exec(_, _, _, _, _, _)
exec(img, atoms, i, cursor, stack, sv) ==
    IF i > Len(atoms) THEN [ok |-> TRUE, save |-> sv]
    ELSE
    LET a == atoms[i]
        fail == [ok |-> FALSE, save |-> sv]
    IN  CASE a.op = "Byte" ->
                IF InImage(img, cursor, 1) /\ img[cursor[2] + 1] = a.arg
                THEN exec(img, atoms, i + 1, wrapping_add(cursor, U32(1)), stack, sv)
                ELSE fail
          [] a.op = "Save" ->
                exec(img, atoms, i + 1, cursor, stack,
                     [sv EXCEPT ![a.arg + 1] = cursor])
          [] a.op = "Push" ->
                exec(img, atoms, i + 1, cursor,
                     <<wrapping_add(cursor, U32(a.arg))>> \o stack, sv)
          [] a.op = "Jump4" ->
                IF InImage(img, cursor, 4)
                THEN exec(img, atoms, i + 1, jump4(cursor, read_u32(img, cursor)),
                          stack, sv)
                ELSE fail
          [] a.op = "Pop" ->
                exec(img, atoms, i + 1, Head(stack), Tail(stack), sv)
          [] a.op = "ReadU32" ->
                IF InImage(img, cursor, 4)
                THEN exec(img, atoms, i + 1, wrapping_add(cursor, U32(4)), stack,
                          [sv EXCEPT ![a.arg + 1] = read_u32(img, cursor)])
                ELSE fail

\* the pattern run from the start RVA o
exec_at(img, atoms, o) == exec(img, atoms, 1, U32(o), <<>>, ZeroSave(atoms))

\* the start RVAs within the code range at which the pattern matches
matches_code(img, base, atoms) ==
    {o \in base..(Len(img) - 1) : exec_at(img, atoms, o).ok}

SetMin(S) == CHOOSE x \in S : \A y \in S : x <= y

\* finds_code: the match, provided it is the only one in the code range
finds_code_first(img, base, atoms) ==
    LET ms == matches_code(img, base, atoms)
    IN  IF ms = {} THEN [found |-> FALSE, save |-> ZeroSave(atoms)]
        ELSE [found |-> TRUE, save |-> exec_at(img, atoms, SetMin(ms)).save]

finds_code(img, base, atoms) ==
    LET ms == matches_code(img, base, atoms)
    IN  IF ms = {} THEN [found |-> FALSE, save |-> ZeroSave(atoms)]
        ELSE [found |-> Cardinality(ms) = 1,
              save |-> exec_at(img, atoms, SetMin(ms)).save]

(***************************************************************************)
(* SpecScan: finds_code on bounded images.  An image is a run of chunks,   *)
(* each either padding or the bytes of one of the scanned signatures with  *)
(* a displacement in its operand field.                                    *)
(***************************************************************************)
\* 0x00000010 and 0xFFFFFFF8 (-8), little-endian
Displacements == {<<16, 0, 0, 0>>, <<248, 255, 255, 255>>}

Padding == [i \in 1..7 |-> 204]

Instance(p, d) ==
    [i \in 1..Len(Signature[p]) |->
        IF Signature[p][i] = -1 THEN d[i - 3] ELSE Signature[p][i]]

Chunks == {Padding} \cup {Instance(p, d) : p \in ScanPatterns, d \in Displacements}

RECURSIVE Concat(_)
Concat(cs) == IF cs = <<>> THEN <<>> ELSE Head(cs) \o Concat(Tail(cs))

Images ==
    UNION {{Concat(cs) : cs \in [1..n -> Chunks]} : n \in 1..MaxChunks}

\* BaseOfCode of the optional header: the whole image is code, or the first
\* 7 bytes are not
CodeBases == {0, 7}

InitScan ==
    /\ pc = "module_by_name"
    /\ modIdx = 1
    /\ view = EmptyMap
    /\ order = <<>>
    /\ pos = 0
    /\ attempted = <<>>
    /\ map = EmptyMap
    /\ table = EmptyMap
    /\ log = <<>>
    /\ result = "pending"
    /\ image \in Images
    /\ baseOfCode \in CodeBases
    /\ pat \in ScanPatterns
    /\ found = FALSE
    /\ save = ZeroSave(Atoms[pat])
    /\ spc = "ready"

\* let mut save = vec![0; save_len(pat)]; view.scanner().finds_code(pat, &mut save)
Scan ==
    /\ spc = "ready"
    /\ LET r == finds_code(image, baseOfCode, Atoms[pat])
       IN  /\ found' = r.found
           /\ save' = r.save
    /\ spc' = "scanned"
    /\ UNCHANGED <<image, baseOfCode, pat>>
    /\ UNCHANGED buildVars

NextScan == Scan

SpecScan == InitScan /\ [][NextScan]_vars

(***************************************************************************)
(* Properties of the build and the aggregator (under Spec).                *)
(***************************************************************************)
Matched(v, m) == {n \in EntrySet(m) : v[n].found}

Stale(v, m) == {n \in EntrySet(m) : ~v[n].found}

Building == pc \in {"scan", "insert"}

\* the records of the log that name an entry of module m, in log order
ModuleLog(m) == SelectSeq(log, LAMBDA r : r.name \in EntrySet(m))

LogCount(n) == Cardinality({i \in DOMAIN log : log[i].name = n})

NoDuplicates(s) == \A i, j \in DOMAIN s : i # j => s[i] # s[j]

\* C1: failure isolation.  When a module build returns, every registered
\* entry of the module has been attempted exactly once whatever subset of
\* the patterns failed; a failing entry has no key in the map, and every
\* matching entry has its key with the value of its own scan, which does
\* not depend on how the other entries fared.
C1_FailureIsolation ==
    pc = "insert" =>
        /\ Len(attempted) = Len(Entries(CurModule))
        /\ Range(attempted) = EntrySet(CurModule)
        /\ \A n \in Stale(view, CurModule) : n \notin DOMAIN map
        /\ \A n \in Matched(view, CurModule) :
                n \in DOMAIN map /\ map[n] = view[n].save[2]

\* a build that returned after a stale entry was followed by a matching one
C1_Witness ==
    /\ pc = "insert"
    /\ \E i, j \in DOMAIN attempted :
            /\ i < j
            /\ ~view[attempted[i]].found
            /\ view[attempted[j]].found
            /\ attempted[j] \in DOMAIN map

\* C2: if obtaining the image of any module fails (module lookup, memory
\* read or image parse), offsets(process) returns that error and no table,
\* not even the maps of the modules built before the failing one; a table
\* is returned only when every module was built.
C2_ErrorPropagates ==
    /\ pc = "failed" =>
            /\ result.kind = "Err"
            /\ DOMAIN result = {"kind", "error"}
            /\ result.error \in {"module_by_name", "read_raw", "from_bytes"}
    /\ pc = "done" => result.kind = "Ok"
    /\ pc \notin {"failed", "done"} => result = "pending"

\* the third module's image could not be read after two modules were built
\* and had offsets logged
C2_Witness ==
    /\ pc = "failed"
    /\ modIdx = 3
    /\ result.kind = "Err"
    /\ \E i \in DOMAIN log : log[i].level = "debug"

\* C3: whenever the aggregator returns Ok, the table's keys are exactly the
\* three configured modules, however many patterns were stale; a module
\* whose patterns were all stale is present with an empty map.
C3_AllModulesPresent ==
    pc = "done" =>
        /\ result.kind = "Ok"
        /\ DOMAIN result.table = Range(modules)
        /\ \A m \in Range(modules) :
                (\A n \in EntrySet(m) :
                    \E i \in DOMAIN log :
                        log[i].name = n /\ log[i].level = "error")
                => (m \in DOMAIN result.table /\ DOMAIN result.table[m] = {})

\* Ok was returned although every pattern of client.dll was stale
C3_Witness ==
    /\ pc = "done"
    /\ result.kind = "Ok"
    /\ "client.dll" \in DOMAIN result.table
    /\ DOMAIN result.table["client.dll"] = {}
    /\ DOMAIN result.table["engine2.dll"] # {}

\* C4 as stated: the builder processes the entries in the order the
\* registry lists them, so the entries attempted so far are always a prefix
\* of the listing.
C4_RegistrationOrder ==
    Building => attempted = SubSeq(Entries(CurModule), 1, Len(attempted))

\* C4 amended: the builder processes the entries in the iteration order of
\* the PATTERNS map, a permutation of the module's entries that need not be
\* the listing order: each entry occurs exactly once in that order, and when
\* an entry is scanned exactly the entries before it in that order have been
\* attempted and none after it.
C4_IterationOrder ==
    Building =>
        /\ Len(order) = Len(Entries(CurModule))
        /\ Range(order) = EntrySet(CurModule)
        /\ NoDuplicates(order)
        /\ pos <= Len(order)
        /\ attempted = SubSeq(order, 1, pos)

\* two entries were attempted in the opposite of the listing order
C4_Witness ==
    /\ pc = "scan"
    /\ CurModule = "client.dll"
    /\ Len(attempted) >= 2
    /\ attempted[1] = Entries("client.dll")[2]
    /\ attempted[2] = Entries("client.dll")[1]

\* C5: during one build pass the map only grows: every step of the pass
\* leaves each (name, value) pair of the map in place with the same value.
C5_MapOnlyGrows ==
    [][pc = "scan" =>
        \A k \in DOMAIN map : k \in DOMAIN map' /\ map'[k] = map[k]]_vars

\* a pass that has inserted two entries and goes on to a third
C5_Witness ==
    /\ pc = "scan"
    /\ Cardinality(DOMAIN map) >= 2
    /\ pos < Len(order)
    /\ view[order[pos + 1]].found

\* C6: every (name, value) of a module's map is a registered entry of that
\* module whose pattern matched, with the value of save slot 1 (the first
\* capture), not the match start of slot 0; no derivation rule exists to
\* add anything else, and the returned table holds only such names.
C6_OnlyFirstCapture ==
    /\ Building =>
            \A n \in DOMAIN map :
                /\ n \in EntrySet(CurModule)
                /\ Callback(n) = "None"
                /\ view[n].found
                /\ map[n] = view[n].save[2]
    /\ pc = "done" =>
            \A m \in DOMAIN result.table :
                DOMAIN result.table[m] \subseteq EntrySet(m)

\* a returned map holding the first capture of an entry, while an entry
\* whose scan left captures behind without matching is absent
C6_Witness ==
    /\ pc = "insert"
    /\ \E n \in DOMAIN map : map[n] = U32(48) /\ view[n].save[1] = U32(16)
    /\ \E n \in EntrySet(CurModule) :
            ~view[n].found /\ view[n].save[2] = U32(48) /\ n \notin DOMAIN map

\* C7: when a module build returns, every attempted pattern has exactly one
\* diagnostic: an error record with its name if it did not match, or a debug
\* record with its name and value if it did, never both and never none; and
\* the map returned is the map of the matches, unchanged by the logging.
C7_OneDiagnosticPerPattern ==
    /\ pc = "insert" =>
            /\ \A n \in EntrySet(CurModule) :
                    /\ LogCount(n) = 1
                    /\ \A i \in DOMAIN log :
                            log[i].name = n =>
                                IF view[n].found
                                THEN /\ log[i].level = "debug"
                                     /\ log[i].value = view[n].save[2]
                                     /\ log[i].module = ModuleIdent[CurModule]
                                ELSE log[i].level = "error"
            /\ DOMAIN map = Matched(view, CurModule)
    /\ pc = "done" =>
            \A m \in Range(modules) : \A n \in EntrySet(m) : LogCount(n) = 1

\* a build that returned with a stale and a matched entry both logged
C7_Witness ==
    /\ pc = "insert"
    /\ \E i, j \in DOMAIN ModuleLog(CurModule) :
            /\ ModuleLog(CurModule)[i].level = "error"
            /\ ModuleLog(CurModule)[j].level = "debug"

\* the names of a module's log records, in log order
LogNames(m) == [i \in DOMAIN ModuleLog(m) |-> ModuleLog(m)[i].name]

\* C10 as stated: each entry's diagnostic is emitted while the entry is
\* processed, so the module's diagnostics follow the processing order.
C10_InlineOrder ==
    Building => LogNames(CurModule) = attempted

\* C10 amended: only the staleness diagnostics are emitted inline, in
\* processing order; the success diagnostics of a module are emitted after
\* all its entries have been attempted, in ascending order of name, so they
\* follow every staleness diagnostic of that module.
C10_StaleInlineFoundAfter ==
    LET ml == ModuleLog(CurModule)
        staleSeq == SelectSeq(attempted, LAMBDA n : ~view[n].found)
        errors == SelectSeq(ml, LAMBDA r : r.level = "error")
        debugs == SelectSeq(ml, LAMBDA r : r.level = "debug")
    IN  /\ Building =>
                /\ [i \in DOMAIN errors |-> errors[i].name] = staleSeq
                /\ ml = errors \o debugs
        /\ pc = "scan" => debugs = <<>>
        /\ pc = "insert" =>
                /\ {debugs[i].name : i \in DOMAIN debugs} = DOMAIN map
                /\ \A i, j \in DOMAIN debugs :
                        i < j => NameRank[debugs[i].name] < NameRank[debugs[j].name]

\* a build that returned where two matched entries, attempted in descending
\* order of name, were followed by a stale one
C10_Witness ==
    /\ pc = "insert"
    /\ Len(attempted) >= 3
    /\ view[attempted[1]].found
    /\ view[attempted[2]].found
    /\ NameRank[attempted[1]] > NameRank[attempted[2]]
    /\ ~view[attempted[3]].found

(***************************************************************************)
(* Properties of the scan (under SpecScan).                                *)
(***************************************************************************)
\* the signature of entry p fits the image bytes at start RVA o
SigMatches(img, p, o) ==
    /\ o + Len(Signature[p]) <= Len(img)
    /\ \A i \in DOMAIN Signature[p] :
            Signature[p][i] = -1 \/ img[o + i] = Signature[p][i]

\* the start RVAs in the code range at which the scanned signature fits
Fits == {o \in baseOfCode..(Len(image) - 1) : SigMatches(image, pat, o)}

\* C8 as stated: when the pattern matches at more than one offset, the scan
\* reports a match, the one at the lowest offset.
C8_FirstMatchWins ==
    (spc = "scanned" /\ Cardinality(Fits) >= 2) =>
        (found /\ save[1] = U32(SetMin(Fits)))

\* C8 amended: the scan reports a match exactly when the pattern matches at
\* one single offset of the code range, and then slot 0 is that offset; a
\* pattern matching at more than one offset is reported as not found, so
\* the builder treats the entry as stale.
C8_UniqueMatchOnly ==
    spc = "scanned" =>
        /\ found <=> Cardinality(Fits) = 1
        /\ found => save[1] = U32(SetMin(Fits))
        /\ Cardinality(Fits) >= 2 => ~found

\* the pattern fits at two offsets of the code range and was reported stale
C8_Witness ==
    /\ spc = "scanned"
    /\ Cardinality(Fits) >= 2
    /\ ~found

\* the 4-byte operand field of the match that slot 0 names
FieldAt == save[1][2] + 3

FieldBytes == [i \in 1..4 |-> image[FieldAt + i]]

\* the field read as a signed 32-bit little-endian integer
SignedLE(b) ==
    IF b[4] >= 128
    THEN -((255 - b[1]) + 256 * (255 - b[2]) + 65536 * (255 - b[3])
            + 16777216 * (255 - b[4])) - 1
    ELSE b[1] + 256 * b[2] + 65536 * b[3] + 16777216 * b[4]

\* an integer of the signed 32-bit range as the u32 it wraps to
AsRva(n) ==
    IF n >= 0 THEN <<n \div 65536, n % 65536>>
    ELSE <<65535 - ((-n - 1) \div 65536), 65535 - ((-n - 1) % 65536)>>

\* C9: a RIP-relative capture is the position just after the 4-byte field
\* plus the signed displacement the field holds (as a u32), for every field
\* position and displacement, negative ones included; a u4 capture is the
\* field's own value with no positional adjustment.
C9_CaptureArithmetic ==
    (spc = "scanned" /\ found) =>
        IF pat = "dwViewMatrix"
        THEN save[2] = <<FieldBytes[4] * 256 + FieldBytes[3],
                         FieldBytes[2] * 256 + FieldBytes[1]>>
        ELSE save[2] = AsRva(FieldAt + 4 + SignedLE(FieldBytes))

\* the field at position 10 holds 0x10 and the capture is 14 + 0x10 = 30
C9_Witness ==
    /\ spc = "scanned"
    /\ found
    /\ pat = "dwLocalPlayerController"
    /\ FieldAt = 10
    /\ FieldBytes = <<16, 0, 0, 0>>
    /\ save[2] = <<0, 30>>

====
